---- MODULE Spec2Model ----
(***************************************************************************)
(* Model of the manuscript search engine (index-search) and of the         *)
(* POST /search route that drives it.                                      *)
(*                                                                         *)
(* Representation.  A JavaScript Set and Map iterate in insertion order,   *)
(* and the engine turns the result Set into the items array by iterating   *)
(* it, so a Set is modelled as a sequence without repetition.  A string    *)
(* is an atom; Spell gives its characters where the code looks inside it.  *)
(* An optional property is a record field that may be missing from the     *)
(* record's DOMAIN.  A document field is a tagged value [t, v] because the *)
(* code branches on typeof / Array.isArray.                                *)
(***************************************************************************)
EXTENDS Integers, Sequences, FiniteSets, TLC

VARIABLES index, call, ret,
          bucket, now, manuscriptIndexCache, indexLastFetched, searchInstance, reqs

\* the server: the stored index file, the clock, the module's cache and the
\* requests being handled
server == <<bucket, now, manuscriptIndexCache, indexLastFetched, searchInstance, reqs>>

vars == <<index, call, ret, server>>

(***************************************************************************)
(* Bounds of the model.                                                    *)
(***************************************************************************)
MaxDocs == 2
MaxOps == 3
MaxLimit == 2
MaxRequests == 1
MaxVersions == 2
MaxTicks == 1
MaxText == 5
MaxQuery == 4
MaxValues == 2
MaxPages == 2

(***************************************************************************)
(* JavaScript helpers.                                                     *)
(***************************************************************************)
Has(r, f) == f \in DOMAIN r

\* an object without own properties
Empty == [x \in {} |-> 0]

Min(a, b) == IF a <= b THEN a ELSE b

Max(a, b) == IF a >= b THEN a ELSE b

Range(s) == {s[i] : i \in 1..Len(s)}

\* Set.prototype.has
SetHas(s, x) == \E i \in 1..Len(s) : s[i] = x

\* Set.prototype.add: a new element goes last, a present one keeps its place
SetAdd(s, x) == IF SetHas(s, x) THEN s ELSE Append(s, x)

\* Set.prototype.delete
SetDelete(s, x) == SelectSeq(s, LAMBDA y : y # x)

RECURSIVE SetAddAll(_, _)
\* arr.forEach(id => s.add(id))
SetAddAll(s, arr) ==
  IF arr = <<>> THEN s ELSE SetAddAll(SetAdd(s, Head(arr)), Tail(arr))

RECURSIVE SetDeleteAll(_, _)
\* arr.forEach(id => s.delete(id))
SetDeleteAll(s, arr) ==
  IF arr = <<>> THEN s ELSE SetDeleteAll(SetDelete(s, Head(arr)), Tail(arr))

RECURSIVE Concat(_)
\* the concatenation of a sequence of sequences
Concat(ss) == IF ss = <<>> THEN <<>> ELSE Head(ss) \o Concat(Tail(ss))

\* Array.prototype.slice(start, end), negative indexes counting from the end
slice(arr, start, end) ==
  LET len == Len(arr)
      from == IF start < 0 THEN Max(len + start, 0) ELSE Min(start, len)
      to == IF end < 0 THEN Max(len + end, 0) ELSE Min(end, len)
  IN IF from < to THEN SubSeq(arr, from + 1, to) ELSE <<>>

\* Math.ceil(a / b) for a >= 0 and b >= 1
ceilDiv(a, b) == (a + b - 1) \div b

(***************************************************************************)
(* Strings.                                                                *)
(***************************************************************************)
\* the capital I with a dot above (U+0130) and the combining dot above
\* (U+0307), each one UTF-16 code unit
DottedI == "U+0130"

DotAbove == "U+0307"

\* the characters of the strings the documents hold; "Ida" is written with
\* the capital I with a dot above
Spell(s) ==
  CASE s = "Book" -> <<"B", "o", "o", "k">>
    [] s = "Old Psalter" -> <<"O", "l", "d", " ", "P", "s", "a", "l", "t", "e", "r">>
    [] s = "Rose" -> <<"R", "o", "s", "e">>
    [] s = "Bede" -> <<"B", "e", "d", "e">>
    [] s = "BL" -> <<"B", "L">>
    [] s = "BnF" -> <<"B", "n", "F">>
    [] s = "la" -> <<"l", "a">>
    [] s = "fr" -> <<"f", "r">>
    [] s = "vellum" -> <<"v", "e", "l", "l", "u", "m">>
    [] s = "Full" -> <<"F", "u", "l", "l">>
    [] s = "Ida" -> <<DottedI, "d", "a">>
    [] OTHER -> <<>>

\* String.prototype.toLowerCase on one character
lowerChar(c) ==
  CASE c = "B" -> "b" [] c = "O" -> "o" [] c = "P" -> "p" [] c = "R" -> "r"
    [] c = "L" -> "l" [] c = "F" -> "f" [] c = "S" -> "s"
    [] OTHER -> c

\* String.prototype.toLowerCase: the capital I with a dot above becomes the
\* two code units i and combining dot above, any other character becomes one
toLowerCase(cs) ==
  Concat([i \in 1..Len(cs) |->
            IF cs[i] = DottedI THEN <<"i", DotAbove>> ELSE <<lowerChar(cs[i])>>])

isSpace(c) == c = " "

\* String.prototype.includes
includes(text, q) ==
  \E i \in 0..(Len(text) - Len(q)) : SubSeq(text, i + 1, i + Len(q)) = q

\* String.prototype.startsWith
startsWith(text, q) ==
  /\ Len(q) <= Len(text)
  /\ SubSeq(text, 1, Len(q)) = q

\* String.prototype.substring(0, n)
prefix(cs, n) == SubSeq(cs, 1, Min(Max(n, 0), Len(cs)))

RECURSIVE splitFrom(_, _, _, _)
splitFrom(rest, cur, acc, prevSpace) ==
  IF rest = <<>> THEN Append(acc, cur)
  ELSE IF isSpace(Head(rest))
       THEN IF prevSpace THEN splitFrom(Tail(rest), cur, acc, TRUE)
            ELSE splitFrom(Tail(rest), <<>>, Append(acc, cur), TRUE)
       ELSE splitFrom(Tail(rest), Append(cur, Head(rest)), acc, FALSE)

\* String.prototype.split(/\s+/)
split(text) == splitFrom(text, <<>>, <<>>, FALSE)

RECURSIVE trimStart(_)
trimStart(cs) ==
  IF cs # <<>> /\ isSpace(Head(cs)) THEN trimStart(Tail(cs)) ELSE cs

RECURSIVE trimEnd(_)
trimEnd(cs) ==
  IF cs # <<>> /\ isSpace(cs[Len(cs)]) THEN trimEnd(SubSeq(cs, 1, Len(cs) - 1))
  ELSE cs

\* String.prototype.trim
trim(cs) == trimEnd(trimStart(cs))

(***************************************************************************)
(* Search operations (index-search).                                       *)
(***************************************************************************)
docId(doc) == doc["id"].v

\* index.documents.map(doc => doc.id)
docIds(docs) == [k \in 1..Len(docs) |-> docId(docs[k])]

\* faulty variant of fuzzyMatchWord: no word with one character deleted is tried
fuzzyMatchWordWithoutDeletion(word, queryLower) ==
  \/ word = queryLower
  \/ /\ Len(word) >= 4
     /\ Len(queryLower) >= 3
     /\ LET prefixLength == Min(Len(queryLower), Len(word)) - 1
        IN /\ prefixLength >= 3
           /\ prefix(word, prefixLength) = prefix(queryLower, prefixLength)

\* one word of the text against the query, inside fuzzyMatch's loop
fuzzyMatchWord(word, queryLower) ==
  \/ word = queryLower
  \/ /\ Len(word) >= 4
     /\ Len(queryLower) >= 3
     /\ \/ \E i \in 1..Len(word) :
             SubSeq(word, 1, i - 1) \o SubSeq(word, i + 1, Len(word)) = queryLower
        \/ LET prefixLength == Min(Len(queryLower), Len(word)) - 1
           IN /\ prefixLength >= 3
              /\ prefix(word, prefixLength) = prefix(queryLower, prefixLength)

\* faulty variant of fuzzyMatch: the text is not first searched for the query
fuzzyMatchWithoutIncludes(text, query) ==
  IF Len(query) <= 2 THEN includes(text, query)
  ELSE LET words == split(toLowerCase(text))
           queryLower == toLowerCase(query)
       IN \E w \in 1..Len(words) : fuzzyMatchWord(words[w], queryLower)

\* TextSearch.fuzzyMatch
fuzzyMatch(text, query) ==
  IF includes(text, query) THEN TRUE
  ELSE IF Len(query) <= 2 THEN includes(text, query)
  ELSE LET words == split(toLowerCase(text))
           queryLower == toLowerCase(query)
       IN \E w \in 1..Len(words) : fuzzyMatchWord(words[w], queryLower)

\* faulty variant of matchString: the value is compared as it is written
matchStringAsWritten(value, query, matchType) ==
  LET normalizedValue == Spell(value)
  IN CASE matchType = "exact" -> normalizedValue = query
       [] matchType = "contains" -> includes(normalizedValue, query)
       [] matchType = "startsWith" -> startsWith(normalizedValue, query)
       [] matchType = "fuzzy" -> fuzzyMatch(normalizedValue, query)
       [] OTHER -> includes(normalizedValue, query)

\* TextSearch.matchString on the characters of the value
matchCharacters(characters, query, matchType) ==
  LET normalizedValue == toLowerCase(characters)
  IN CASE matchType = "exact" -> normalizedValue = query
       [] matchType = "contains" -> includes(normalizedValue, query)
       [] matchType = "startsWith" -> startsWith(normalizedValue, query)
       [] matchType = "fuzzy" -> fuzzyMatch(normalizedValue, query)
       [] OTHER -> includes(normalizedValue, query)

\* TextSearch.matchString
matchString(value, query, matchType) ==
  matchCharacters(Spell(value), query, matchType)

\* TextSearch.execute
TextSearchExecute(options, idx) ==
  LET fields == options.fields
      matchType == IF Has(options, "matchType") THEN options.matchType ELSE "contains"
      normalizedQuery == toLowerCase(options.query)
      fieldMatches(doc, field) ==
        IF ~Has(doc, field) THEN FALSE
        ELSE LET value == doc[field]
             IN IF value.t = "string"
                THEN matchString(value.v, normalizedQuery, matchType)
                ELSE IF value.t = "array"
                THEN \E i \in 1..Len(value.v) :
                       matchString(value.v[i], normalizedQuery, matchType)
                ELSE FALSE
      matches(doc) == \E k \in 1..Len(fields) : fieldMatches(doc, fields[k])
  IN SetAddAll(<<>>, docIds(SelectSeq(idx.documents, matches)))

\* the 'all' branch of FacetSearch.execute: potentialMatches counts, per id, its
\* occurrences in the lists of the requested values
facetAll(values, listed) ==
  IF Len(values) = 0 THEN <<>>
  ELSE LET potentialMatches == SetAddAll(<<>>, listed)
           count(id) == Cardinality({k \in 1..Len(listed) : listed[k] = id})
       IN SelectSeq(potentialMatches, LAMBDA id : count(id) = Len(values))

\* faulty variant of facetNone: the removal loop is left out
facetNoneKeepsAll(idx, listed) == SetAddAll(<<>>, docIds(idx.documents))

\* the 'none' branch of FacetSearch.execute
facetNone(idx, listed) ==
  SetDeleteAll(SetAddAll(<<>>, docIds(idx.documents)), listed)

\* a name every object parsed from JSON inherits from Object.prototype
Inherited == {"constructor"}

\* obj[key] is truthy: an own property (an array or an object here), or the
\* function inherited under the name
truthy(obj, key) == Has(obj, key) \/ key \in Inherited

\* index.facets[facetType]: the own facet; the inherited function has no own
\* property named by a value
facetsOf(idx, facetType) ==
  IF Has(idx.facets, facetType) THEN idx.facets[facetType] ELSE Empty

\* docIds.forEach is not a function: facets[value] is truthy and no array
notIterable(facets, value) == ~Has(facets, value) /\ value \in Inherited

\* FacetSearch.execute raises a TypeError
FacetSearchThrows(options, idx) ==
  LET facetType == options.facetType
      values == options.values
      matchType == IF Has(options, "matchType") THEN options.matchType ELSE "any"
  IN /\ truthy(idx.facets, facetType)
     /\ \/ matchType \in {"any", "none"}
        \/ matchType = "all" /\ Len(values) # 0
     /\ \E k \in 1..Len(values) : notIterable(facetsOf(idx, facetType), values[k])

\* faulty variant of facetAny: the ids under every requested value
facetAnyAsAll(values, listed) == facetAll(values, listed)

\* the 'any' branch of FacetSearch.execute
facetAny(values, listed) == SetAddAll(<<>>, listed)

\* FacetSearch.execute, when it returns
FacetSearchExecute(options, idx) ==
  LET facetType == options.facetType
      values == options.values
      matchType == IF Has(options, "matchType") THEN options.matchType ELSE "any"
  IN IF ~truthy(idx.facets, facetType) THEN <<>>
     ELSE LET facets == facetsOf(idx, facetType)
              docIdsOf(value) == IF Has(facets, value) THEN facets[value] ELSE <<>>
              listed == Concat([k \in 1..Len(values) |-> docIdsOf(values[k])])
          IN CASE matchType = "any" -> facetAny(values, listed)
               [] matchType = "all" -> facetAll(values, listed)
               [] matchType = "none" -> facetNone(idx, listed)
               [] OTHER -> <<>>

\* faulty variant of hasYear: only a missing year is skipped, the year 0 is kept
hasYearOrZero(doc, f) == Has(doc, f) /\ doc[f].t = "number"

\* !doc.start_year, !doc.end_year
hasYear(doc, f) == Has(doc, f) /\ doc[f].t = "number" /\ doc[f].v # 0

\* faulty variant of between: the test for a document inside the range is left out
betweenWithoutInside(options, start_year, end_year) ==
  IF ~Has(options, "endYear") THEN FALSE
  ELSE \/ (start_year <= options.year /\ end_year >= options.year)
       \/ (start_year <= options.endYear /\ end_year >= options.endYear)

\* faulty variant of between: no check that endYear is given, so that only the
\* comparisons with year can succeed
betweenUnguarded(options, start_year, end_year) ==
  IF ~Has(options, "endYear") THEN start_year <= options.year /\ end_year >= options.year
  ELSE \/ (start_year <= options.year /\ end_year >= options.year)
       \/ (start_year <= options.endYear /\ end_year >= options.endYear)
       \/ (start_year >= options.year /\ end_year <= options.endYear)

\* case 'between' of DateRangeSearch.execute
between(options, start_year, end_year) ==
  IF ~Has(options, "endYear") THEN FALSE
  ELSE \/ (start_year <= options.year /\ end_year >= options.year)
       \/ (start_year <= options.endYear /\ end_year >= options.endYear)
       \/ (start_year >= options.year /\ end_year <= options.endYear)

\* DateRangeSearch.execute
DateRangeSearchExecute(options, idx) ==
  LET type == options.type
      year == options.year
      matches(doc) ==
        IF ~hasYear(doc, "start_year") \/ ~hasYear(doc, "end_year") THEN FALSE
        ELSE LET start_year == doc["start_year"].v
                 end_year == doc["end_year"].v
             IN CASE type = "before" -> end_year <= year
                  [] type = "after" -> start_year >= year
                  [] type = "between" -> between(options, start_year, end_year)
                  [] OTHER -> FALSE
  IN SetAddAll(<<>>, docIds(SelectSeq(idx.documents, matches)))

\* AND: the ids of the left set that the right set has
intersection(results1, results2) ==
  SelectSeq(results1, LAMBDA id : SetHas(results2, id))

\* OR: the left set, then the ids only the right set has
union(results1, results2) == SetAddAll(results1, results2)

\* faulty variant of difference: the operands are swapped
differenceSwapped(results1, results2) == SetDeleteAll(results2, results1)

\* NOT: the left set without the ids of the right set
difference(results1, results2) == SetDeleteAll(results1, results2)

RECURSIVE execute(_, _)

\* BooleanSearch.execute
BooleanSearchExecute(op, idx) ==
  LET results1 == execute(op.operation1, idx)
      results2 == execute(op.operation2, idx)
  IN IF ~Has(op, "operator") THEN results1
     ELSE CASE op.operator = "AND" -> intersection(results1, results2)
            [] op.operator = "OR" -> union(results1, results2)
            [] op.operator = "NOT" -> difference(results1, results2)
            [] OTHER -> results1

\* SearchOperation.execute, dispatched on the operation's class
execute(op, idx) ==
  CASE op.kind = "text" -> TextSearchExecute(op.options, idx)
    [] op.kind = "facet" -> FacetSearchExecute(op.options, idx)
    [] op.kind = "date" -> DateRangeSearchExecute(op.options, idx)
    [] op.kind = "boolean" -> BooleanSearchExecute(op, idx)

RECURSIVE throws(_, _)
\* SearchOperation.execute raises: a FacetSearch does, or a child of a BooleanSearch
throws(op, idx) ==
  CASE op.kind = "facet" -> FacetSearchThrows(op.options, idx)
    [] op.kind = "boolean" -> throws(op.operation1, idx) \/ throws(op.operation2, idx)
    [] OTHER -> FALSE

(***************************************************************************)
(* ManuscriptSearch.                                                       *)
(***************************************************************************)
\* (counts[v] || 0) + 1
tally(counts, v) ==
  IF Has(counts, v) THEN [counts EXCEPT ![v] = @ + 1] ELSE counts @@ (v :> 1)

RECURSIVE tallyAll(_, _)
tallyAll(counts, arr) ==
  IF arr = <<>> THEN counts ELSE tallyAll(tally(counts, Head(arr)), Tail(arr))

RECURSIVE countArrayField(_, _, _)
\* items.forEach(item => item[f].forEach(v => counts[v]++)) for an array field
countArrayField(items, f, counts) ==
  IF items = <<>> THEN counts
  ELSE LET item == Head(items)
       IN countArrayField(Tail(items), f,
            IF Has(item, f) /\ item[f].t = "array" THEN tallyAll(counts, item[f].v)
            ELSE counts)

RECURSIVE countStringField(_, _, _)
\* items.forEach(item => counts[item[f]]++) for a non-empty string field
countStringField(items, f, counts) ==
  IF items = <<>> THEN counts
  ELSE LET item == Head(items)
       IN countStringField(Tail(items), f,
            IF Has(item, f) /\ item[f].t = "string" /\ item[f].v # ""
            THEN tally(counts, item[f].v)
            ELSE counts)

NoCounts == [v \in {} |-> 0]

\* ManuscriptSearch.calculateFacetCounts
calculateFacetCounts(items) ==
  [languages |-> countArrayField(items, "languages", NoCounts),
   material_keywords |-> countArrayField(items, "material_keywords", NoCounts),
   script_keywords |-> countArrayField(items, "script_keywords", NoCounts),
   repository |-> countStringField(items, "repository", NoCounts),
   transcription_status |-> countStringField(items, "transcription_status", NoCounts)]

\* faulty variant of combine: OR assigns the new result instead of adding to it
combineOrOverwrites(operator, resultIds, opResults) ==
  CASE operator = "AND" -> SelectSeq(resultIds, LAMBDA id : SetHas(opResults, id))
    [] operator = "OR" -> opResults
    [] operator = "NOT" -> SetDeleteAll(resultIds, opResults)
    [] OTHER -> resultIds

\* faulty variant of combine: an unknown operator is treated as AND
combineDefaultAnd(operator, resultIds, opResults) ==
  CASE operator = "OR" -> SetAddAll(resultIds, opResults)
    [] operator = "NOT" -> SetDeleteAll(resultIds, opResults)
    [] OTHER -> SelectSeq(resultIds, LAMBDA id : SetHas(opResults, id))

\* one round of the loop over restOps in ManuscriptSearch.search
combine(operator, resultIds, opResults) ==
  CASE operator = "AND" -> intersection(resultIds, opResults)
    [] operator = "OR" -> SetAddAll(resultIds, opResults)
    [] operator = "NOT" -> SetDeleteAll(resultIds, opResults)
    [] OTHER -> resultIds

RECURSIVE foldOps(_, _, _, _)
\* for (const op of restOps) { ... }
foldOps(idx, operator, resultIds, restOps) ==
  IF restOps = <<>> THEN resultIds
  ELSE foldOps(idx, operator,
               combine(operator, resultIds, execute(Head(restOps), idx)),
               Tail(restOps))

\* query.operator || 'AND'
operatorOrAnd(q) ==
  IF Has(q, "operator") /\ q.operator # "" THEN q.operator ELSE "AND"

\* faulty variant of searchIds: an empty query matches nothing
searchIdsNoneOnEmpty(idx, query) ==
  IF ~Has(query, "operations") \/ Len(query.operations) = 0
  THEN <<>>
  ELSE IF Len(query.operations) = 1
  THEN execute(query.operations[1], idx)
  ELSE foldOps(idx, operatorOrAnd(query),
               execute(Head(query.operations), idx), Tail(query.operations))

\* the result id Set of ManuscriptSearch.search
searchIds(idx, query) ==
  IF ~Has(query, "operations") \/ Len(query.operations) = 0
  THEN SetAddAll(<<>>, docIds(idx.documents))
  ELSE IF Len(query.operations) = 1
  THEN execute(query.operations[1], idx)
  ELSE foldOps(idx, operatorOrAnd(query),
               execute(Head(query.operations), idx), Tail(query.operations))

\* ManuscriptSearch.search raises: every operation is executed, one of them raises
searchThrows(idx, query) ==
  /\ Has(query, "operations")
  /\ \E k \in 1..Len(query.operations) : throws(query.operations[k], idx)

\* idToDocMap.get(id): the last document holding the id
idToDoc(idx, id) ==
  LET ks == {k \in 1..Len(idx.documents) : docId(idx.documents[k]) = id}
  IN idx.documents[CHOOSE k \in ks : \A j \in ks : j <= k]

\* faulty variant of project: the filter is left out, a stale id gives an
\* undefined item
projectUnfiltered(idx, resultIds) ==
  [k \in 1..Len(resultIds) |->
     IF SetHas(docIds(idx.documents), resultIds[k]) THEN idToDoc(idx, resultIds[k])
     ELSE [t |-> "undefined"]]

\* Array.from(resultIds).map(id => idToDocMap.get(id)).filter(doc => doc !== undefined)
project(idx, resultIds) ==
  LET found == SelectSeq(resultIds, LAMBDA id : SetHas(docIds(idx.documents), id))
  IN [k \in 1..Len(found) |-> idToDoc(idx, found[k])]

\* ManuscriptSearch.search
search(idx, query) ==
  LET allMatchingItems == project(idx, searchIds(idx, query))
  IN [total |-> Len(allMatchingItems),
      items |-> allMatchingItems,
      facetCounts |-> calculateFacetCounts(allMatchingItems)]

(***************************************************************************)
(* POST /search (api/index.js).                                            *)
(***************************************************************************)
DefaultPage == 1
DefaultLimit == 20

DefaultFields ==
  <<"title", "shelfmark", "authors", "brief", "origin_location", "repository">>

\* typeof searchQuery === 'object': a body that is no object carries its jsType
isObject(x) == ~Has(x, "jsType")

\* the text operation the route pushes, if any
textOperations(searchQuery) ==
  IF /\ Has(searchQuery, "text")
     /\ Has(searchQuery.text, "query")
     /\ searchQuery.text.query # <<>>
     /\ trim(searchQuery.text.query) # <<>>
  THEN <<[kind |-> "text",
          options |->
            [fields |-> IF Has(searchQuery.text, "fields")
                        THEN searchQuery.text.fields ELSE DefaultFields,
             query |-> trim(searchQuery.text.query),
             matchType |-> IF Has(searchQuery.text, "matchType")
                              /\ searchQuery.text.matchType # ""
                           THEN searchQuery.text.matchType ELSE "contains"]]>>
  ELSE <<>>

\* a filter with a non-empty values array
hasValues(facetOptions, f) ==
  /\ Has(facetOptions, f)
  /\ Has(facetOptions[f], "values")
  /\ Len(facetOptions[f].values) > 0

\* faulty variant of facetOperations: the exclude filter is searched with the
\* match type the client sends
facetOperationsAsSent(entry) ==
  LET facetType == entry[1]
      facetOptions == entry[2]
  IN IF isObject(facetOptions) /\ hasValues(facetOptions, "exclude")
     THEN <<[kind |-> "facet",
             options |->
               [facetType |-> facetType,
                values |-> facetOptions.exclude.values,
                matchType |-> IF Has(facetOptions.exclude, "matchType")
                              THEN facetOptions.exclude.matchType ELSE "none"]]>>
     ELSE <<>>

\* the operations pushed for one [facetType, facetOptions] entry of searchQuery.facets
facetOperations(entry) ==
  LET facetType == entry[1]
      facetOptions == entry[2]
  IN IF isObject(facetOptions)
     THEN (IF hasValues(facetOptions, "include")
           THEN <<[kind |-> "facet",
                   options |->
                     [facetType |-> facetType,
                      values |-> facetOptions.include.values,
                      matchType |-> IF Has(facetOptions.include, "matchType")
                                       /\ facetOptions.include.matchType # ""
                                    THEN facetOptions.include.matchType ELSE "any"]]>>
           ELSE <<>>)
          \o
          (IF hasValues(facetOptions, "exclude")
           THEN <<[kind |-> "facet",
                   options |->
                     [facetType |-> facetType,
                      values |-> facetOptions.exclude.values,
                      matchType |-> "none"]]>>
           ELSE <<>>)
     ELSE <<>>

\* the operations array the route builds from the request body
buildOperations(searchQuery) ==
  textOperations(searchQuery)
  \o (IF Has(searchQuery, "facets")
      THEN Concat([k \in 1..Len(searchQuery.facets) |->
                     facetOperations(searchQuery.facets[k])])
      ELSE <<>>)
  \o (IF Has(searchQuery, "dateRange")
      THEN <<[kind |-> "date", options |-> searchQuery.dateRange]>>
      ELSE <<>>)

\* { operations, operator: searchQuery.operator || 'AND' }
buildQuery(searchQuery) ==
  [operations |-> buildOperations(searchQuery),
   operator |-> operatorOrAnd(searchQuery)]

\* parseInt(x || dflt, 10) of a number or a numeric string; the number 0 is falsy
parseIntOr(r, f, dflt) ==
  IF Has(r, f) /\ ~(r[f].t = "number" /\ r[f].v = 0) THEN r[f].v ELSE dflt

\* faulty variant of startIndexOf: pages counted from 0
startIndexFromPage(page, limit) == page * limit

\* (page - 1) * limit
startIndexOf(page, limit) == (page - 1) * limit

\* facetCounts: searchResults.facetCounts
responseFacetCounts(searchResults, paginatedItems) == searchResults.facetCounts

\* res.json({...}) of the route for the engine's searchResults
paginate(searchResults, searchQuery) ==
  LET page == parseIntOr(searchQuery, "page", DefaultPage)
      limit == parseIntOr(searchQuery, "limit", DefaultLimit)
      startIndex == startIndexOf(page, limit)
      endIndex == startIndex + limit
      paginatedItems == slice(searchResults.items, startIndex, endIndex)
  IN [status |-> 200,
      total |-> searchResults.total,
      page |-> page,
      limit |-> limit,
      totalPages |-> ceilDiv(searchResults.total, limit),
      items |-> paginatedItems,
      facetCounts |-> responseFacetCounts(searchResults, paginatedItems)]

\* the route's answer, given a search instance bound to idx; an error raised by
\* the search is caught and passed to next(error)
searchResponse(idx, body) ==
  IF ~isObject(body)
  THEN [status |-> 400, error |-> "Invalid search query format"]
  ELSE IF searchThrows(idx, buildQuery(body))
  THEN [status |-> 500, error |-> "Internal Server Error"]
  ELSE paginate(search(idx, buildQuery(body)), body)

(***************************************************************************)
(* The indexes, operations, queries and request bodies the model draws.    *)
(***************************************************************************)
Str(s) == [t |-> "string", v |-> s]

Arr(a) == [t |-> "array", v |-> a]

Num(n) == [t |-> "number", v |-> n]

Null == [t |-> "null"]

\* an entry that lists one of its keywords twice
DocA ==
  [id |-> Str("A"), title |-> Str("Book"), authors |-> Arr(<<"Bede">>),
   languages |-> Arr(<<"la">>), material_keywords |-> Arr(<<"vellum", "vellum">>),
   repository |-> Str("BL"),
   start_year |-> Num(1200), end_year |-> Num(1250)]

DocB ==
  [id |-> Str("B"), title |-> Str("Old Psalter"),
   languages |-> Arr(<<"la", "fr">>), material_keywords |-> Arr(<<"vellum">>),
   repository |-> Str("BnF"), transcription_status |-> Str("Full"),
   start_year |-> Num(1300), end_year |-> Num(1310)]

DocC ==
  [id |-> Str("C"), title |-> Str("Rose"), authors |-> Arr(<<>>),
   languages |-> Arr(<<"fr">>), repository |-> Str("BL"),
   start_year |-> Num(1400), end_year |-> Num(1420)]

\* a sparse entry: no categorical field, a null title, an empty repository, year 0
DocD ==
  [id |-> Str("D"), title |-> Null, repository |-> Str(""),
   start_year |-> Num(0), end_year |-> Num(1500)]

\* an entry without end_year
DocE ==
  [id |-> Str("E"), title |-> Str("Bede"), origin_location |-> Str("Ida"),
   start_year |-> Num(1300)]

Documents == {DocA, DocB, DocC, DocD, DocE}

\* the document lists: up to MaxDocs entries with distinct ids, in any order
DocLists ==
  UNION {{d \in [1..n -> Documents] :
            \A i, j \in 1..n : i # j => docId(d[i]) # docId(d[j])} : n \in 0..MaxDocs}

ArrayFacets == {"languages", "material_keywords", "script_keywords"}

StringFacets == {"repository", "transcription_status"}

FacetValues == {"la", "fr", "vellum", "BL", "BnF", "Full"}

\* the document holds value v in its field f
Holds(doc, f, v) ==
  /\ Has(doc, f)
  /\ \/ doc[f].t = "array" /\ \E i \in 1..Len(doc[f].v) : doc[f].v[i] = v
     \/ doc[f].t = "string" /\ doc[f].v = v

Reverse(s) == [i \in 1..Len(s) |-> s[Len(s) + 1 - i]]

\* facets that agree with the documents: under each value held, the holders' ids
builtFacets(docs, types) ==
  [f \in types |->
     [v \in {w \in FacetValues : \E i \in 1..Len(docs) : Holds(docs[i], f, w)} |->
        docIds(SelectSeq(docs, LAMBDA d : Holds(d, f, v)))]]

\* the same facets with every id list in the opposite order
reversedFacets(docs, types) ==
  LET built == builtFacets(docs, types)
  IN [f \in types |-> [v \in DOMAIN built[f] |-> Reverse(built[f][v])]]

\* facets that disagree with the documents: under each language, a stale id and
\* the ids of the documents that do not hold it
staleFacets(docs) ==
  [f \in {"languages"} |->
     [v \in {"la", "fr"} |->
        <<"Z">> \o docIds(SelectSeq(docs, LAMBDA d : ~Holds(d, f, v)))]]

FacetTypes == ArrayFacets \cup {"repository"}

Indexes ==
  UNION {{[documents |-> d, facets |-> builtFacets(d, FacetTypes)],
          [documents |-> d, facets |-> reversedFacets(d, FacetTypes \cup StringFacets)],
          [documents |-> d, facets |-> staleFacets(d)],
          [documents |-> d, facets |-> Empty]} : d \in DocLists}

TextOp(fields, query, matchType) ==
  [kind |-> "text",
   options |-> [fields |-> fields, query |-> query, matchType |-> matchType]]

FacetOp(facetType, values, matchType) ==
  [kind |-> "facet",
   options |-> [facetType |-> facetType, values |-> values, matchType |-> matchType]]

BooleanOp(op1, op2, operator) ==
  [kind |-> "boolean", operation1 |-> op1, operation2 |-> op2, operator |-> operator]

TextOps ==
  {TextOp(<<"title">>, <<"o">>, "contains"),
   TextOp(<<"title", "authors">>, <<"B">>, "startsWith"),
   [kind |-> "text", options |-> [fields |-> DefaultFields, query |-> <<"b", "l">>]],
   TextOp(<<"title">>, <<"R", "o", "s", "e">>, "exact"),
   TextOp(<<"end_year", "nofield", "authors", "title">>, <<"b", "e">>, "startsWith"),
   TextOp(<<"title">>, <<"o">>, "fuzzy"),
   TextOp(<<"title", "authors">>, <<"B", "e">>, "fuzzy"),
   TextOp(<<"origin_location">>, <<DottedI, "a">>, "fuzzy")}

ValueLists ==
  {<<>>, <<"la">>, <<"fr", "la">>, <<"la", "fr">>, <<"la", "xx">>, <<"la", "constructor">>}

FacetOps ==
  {FacetOp("languages", vs, m) : vs \in ValueLists, m \in {"any", "all", "none"}}
  \cup {FacetOp(f, <<"la">>, m) : f \in {"transcription_status", "nosuch"},
                                  m \in {"any", "none"}}
  \cup {FacetOp("constructor", vs, m) : vs \in {<<>>, <<"la">>},
                                        m \in {"any", "all", "none"}}
  \cup {FacetOp("repository", <<"BL">>, "any"),
        FacetOp("languages", <<"fr">>, "some"),
        [kind |-> "facet", options |-> [facetType |-> "languages", values |-> <<"fr">>]]}

Years == {1190, 1225, 1305, 1500}

DateOps ==
  {[kind |-> "date", options |-> [type |-> "before", year |-> 1310]],
   [kind |-> "date", options |-> [type |-> "after", year |-> 1300]],
   [kind |-> "date", options |-> [type |-> "between", year |-> 1290, endYear |-> 1350]],
   [kind |-> "date", options |-> [type |-> "between", year |-> 1290]]}
  \cup {[kind |-> "date", options |-> [type |-> t, year |-> y]] :
          t \in {"before", "after", "between", "during"}, y \in Years}
  \cup {[kind |-> "date", options |-> [type |-> "between", year |-> y, endYear |-> e]] :
          y \in Years, e \in Years}

\* the operations combined with one another
Operands ==
  {FacetOp("languages", <<"fr", "la">>, "any"),
   FacetOp("languages", <<"la">>, "none"),
   TextOp(<<"title">>, <<"o">>, "contains"),
   [kind |-> "date", options |-> [type |-> "after", year |-> 1300]]}

\* an operator that is none of AND, OR, NOT, and the empty string
Operators == {"AND", "OR", "NOT", "XOR", ""}

BooleanOps ==
  {BooleanOp(a, b, o) : a \in Operands, b \in Operands, o \in Operators}
  \cup {[kind |-> "boolean", operation1 |-> a, operation2 |-> b] :
          a \in Operands, b \in Operands}

Operations == TextOps \cup FacetOps \cup DateOps \cup BooleanOps

\* with or without the operator property
withOperator(q) == {q} \cup {q @@ ("operator" :> o) : o \in Operators}

OperationLists ==
  UNION {[1..n -> Operands \ DateOps] : n \in 2..MaxOps}

Queries ==
  UNION {withOperator([operations |-> ops]) : ops \in OperationLists \cup {<<>>}}
  \cup {[operations |-> <<op>>] : op \in Operations}
  \cup {Empty}

PageInputs == {Num(p) : p \in -1..(MaxDocs + 1)} \cup {Str(0)}

LimitInputs == {Num(l) : l \in 1..MaxLimit}

Filters ==
  {Empty,
   [text |-> [query |-> <<" ", "o", "o", " ">>, fields |-> <<"title">>]],
   [text |-> [query |-> <<" ">>],
    facets |-> <<<<"languages", [include |-> [values |-> <<"fr", "la">>]]>>>>],
   [facets |-> <<<<"languages",
                   [include |-> [values |-> <<"la">>, matchType |-> "all"],
                    exclude |-> [values |-> <<"fr">>, matchType |-> "any"]]>>>>,
    dateRange |-> [type |-> "before", year |-> 1500]],
   [text |-> [query |-> <<"o">>],
    facets |-> <<<<"nosuch", [exclude |-> [values |-> <<"la">>]]>>,
                 <<"repository", [jsType |-> "string"]>>>>],
   [dateRange |-> [type |-> "after", year |-> 1300]],
   [facets |-> <<<<"languages", [include |-> [values |-> <<"constructor">>]]>>>>],
   [text |-> [query |-> <<"o">>],
    facets |-> <<<<"languages",
                   [exclude |-> [values |-> <<"fr", "xx">>, matchType |-> "any"]]>>>>]}

\* the body [] : typeof [] is 'object', its only own property is length
ArrayBody == [length |-> 0]

withPage(b) == {b} \cup {b @@ ("page" :> p) : p \in PageInputs}

withLimit(b) == {b} \cup {b @@ ("limit" :> l) : l \in LimitInputs}

Bodies ==
  UNION {UNION {withLimit(bp) : bp \in withPage(bo)} :
           bo \in UNION {{f, f @@ ("operator" :> "OR")} : f \in Filters}}
  \cup {[jsType |-> "undefined"], [jsType |-> "string"], ArrayBody}

(***************************************************************************)
(* State: the index a search instance is bound to, one invocation, and     *)
(* what it returned.                                                       *)
(***************************************************************************)
NotReturned == [done |-> FALSE]

\* !query.operations || query.operations.length === 0
NoOperations(q) == ~Has(q, "operations") \/ q.operations = <<>>

(***************************************************************************)
(* What a search writes.  The engine writes with Set.add, Set.delete and   *)
(* Map.set only; an object written is a Set made by the call (Fresh) or,   *)
(* were it handed out by the index, an id list of index.facets.            *)
(***************************************************************************)
Fresh == <<"new">>

\* faulty variant of newSet: a facet search for one stored value works on the
\* id list of the index instead of a Set of its own
newSetOfIndex(op, idx) ==
  IF /\ op.kind = "facet"
     /\ Len(op.options.values) = 1
     /\ Has(idx.facets, op.options.facetType)
     /\ Has(idx.facets[op.options.facetType], op.options.values[1])
  THEN <<"facets", op.options.facetType, op.options.values[1]>>
  ELSE Fresh

\* const results = new Set() of TextSearch, FacetSearch and DateRangeSearch
newSet(op, idx) == Fresh

\* the object that execute returns: results; the intersection, union and
\* difference of a BooleanSearch are new Sets, with any other operator it
\* returns results1 itself
RECURSIVE resultObject(_, _)

resultObject(op, idx) ==
  IF op.kind = "boolean"
  THEN IF Has(op, "operator") /\ op.operator \in {"AND", "OR", "NOT"}
       THEN Fresh
       ELSE resultObject(op.operation1, idx)
  ELSE newSet(op, idx)

\* the index once the object holds the contents
written(object, contents, idx) ==
  IF object = Fresh THEN idx
  ELSE [idx EXCEPT !.facets[object[2]][object[3]] = contents]

\* the index after execute(index): TextSearch, FacetSearch and DateRangeSearch
\* add to and delete from results, a BooleanSearch executes its two operations
\* and writes to a new Set only
RECURSIVE indexAfterExecute(_, _)

indexAfterExecute(op, idx) ==
  IF throws(op, idx) THEN idx
  ELSE IF op.kind = "boolean"
  THEN indexAfterExecute(op.operation2, indexAfterExecute(op.operation1, idx))
  ELSE written(newSet(op, idx), execute(op, idx), idx)

RECURSIVE indexAfterOperations(_, _)

indexAfterOperations(ops, idx) ==
  IF ops = <<>> THEN idx
  ELSE indexAfterOperations(Tail(ops), indexAfterExecute(Head(ops), idx))

\* the index after ManuscriptSearch.search(query): the operations are
\* executed, and with OR and NOT the loop adds to and deletes from the object
\* the first operation returned; idToDocMap, allMatchingItems and counts are
\* made by the call
indexAfterSearch(idx, query) ==
  IF NoOperations(query) \/ searchThrows(idx, query) THEN idx
  ELSE LET ops == query.operations
       IN IF Len(ops) >= 2 /\ operatorOrAnd(query) \in {"OR", "NOT"}
          THEN written(resultObject(ops[1], idx), searchIds(idx, query),
                       indexAfterOperations(ops, idx))
          ELSE indexAfterOperations(ops, idx)

\* the invocation raised an error
Thrown == [done |-> TRUE, threw |-> TRUE]

\* the Set an operation's execute(index) returned, or the error it raised
executed(op, idx) ==
  IF throws(op, idx) THEN Thrown
  ELSE [done |-> TRUE, threw |-> FALSE, ids |-> execute(op, idx)]

\* SearchOperation.execute(index) of a TextSearch
TextSearchCall ==
  /\ call.kind = "execute" /\ call.op.kind = "text" /\ ~ret.done
  /\ ret' = executed(call.op, index)
  /\ index' = indexAfterExecute(call.op, index)
  /\ UNCHANGED <<call, server>>

\* SearchOperation.execute(index) of a FacetSearch
FacetSearchCall ==
  /\ call.kind = "execute" /\ call.op.kind = "facet" /\ ~ret.done
  /\ ret' = executed(call.op, index)
  /\ index' = indexAfterExecute(call.op, index)
  /\ UNCHANGED <<call, server>>

\* SearchOperation.execute(index) of a DateRangeSearch
DateRangeSearchCall ==
  /\ call.kind = "execute" /\ call.op.kind = "date" /\ ~ret.done
  /\ ret' = executed(call.op, index)
  /\ index' = indexAfterExecute(call.op, index)
  /\ UNCHANGED <<call, server>>

\* SearchOperation.execute(index) of a BooleanSearch
BooleanSearchCall ==
  /\ call.kind = "execute" /\ call.op.kind = "boolean" /\ ~ret.done
  /\ ret' = executed(call.op, index)
  /\ index' = indexAfterExecute(call.op, index)
  /\ UNCHANGED <<call, server>>

\* ManuscriptSearch.search(query); resultIds is its local before the projection
SearchCall ==
  /\ call.kind = "search" /\ ~ret.done
  /\ ret' = IF searchThrows(index, call.query) THEN Thrown
             ELSE [done |-> TRUE, threw |-> FALSE,
                   resultIds |-> searchIds(index, call.query),
                   result |-> search(index, call.query)]
  /\ index' = indexAfterSearch(index, call.query)
  /\ UNCHANGED <<call, server>>

\* router.post('/search') with a search instance; searchResults is its local
PostSearch ==
  /\ call.kind = "post" /\ ~ret.done
  /\ ret' = [done |-> TRUE, threw |-> FALSE,
             searchResults |-> IF /\ isObject(call.body)
                                  /\ ~searchThrows(index, buildQuery(call.body))
                               THEN search(index, buildQuery(call.body))
                               ELSE Empty,
             response |-> searchResponse(index, call.body)]
  /\ index' = IF isObject(call.body) THEN indexAfterSearch(index, buildQuery(call.body))
               ELSE index
  /\ UNCHANGED <<call, server>>

(***************************************************************************)
(* The server (api/index.js): the cached index, fetchManuscriptIndex and   *)
(* the two search routes.  An async function runs without interruption     *)
(* from one await to the next, so each action is one such stretch; what a  *)
(* storage call finds is the file as it is when the call completes.        *)
(***************************************************************************)
INDEX_CACHE_TTL == 3600000

\* the documents of the v-th published index
VersionDocuments(v) == IF v % 2 = 1 THEN <<DocA, DocB>> ELSE <<DocC, DocB, DocD>>

\* JSON.parse of the v-th published index file
Version(v) ==
  [metadata |-> [version |-> v],
   documents |-> VersionDocuments(v),
   facets |-> builtFacets(VersionDocuments(v), FacetTypes)]

\* the file at catalogue/search-index.json: it is not there, it is there and is
\* no JSON, or it is the v-th published index
Missing == 0
Corrupt == -1
BucketStates == {Missing, Corrupt} \cup 1..MaxVersions

\* the bodies of the POST /search requests: the search reads the documents and
\* the facets of the index
ServerBodies ==
  {[facets |-> <<<<"languages", [exclude |-> [values |-> <<"la">>]]>>>>]}

\* faulty variant of ManuscriptSearch: the instance keeps the documents only
ManuscriptSearchOfDocuments(idx) ==
  [index |-> [documents |-> idx.documents, facets |-> Empty]]

\* new ManuscriptSearch(index)
ManuscriptSearch(idx) == [index |-> idx]

\* no request is handled and no index is cached: the state of the server
\* while a single invocation is looked at
ServerOff ==
  /\ bucket = Missing
  /\ now = INDEX_CACHE_TTL
  /\ manuscriptIndexCache = Null
  /\ indexLastFetched = Null
  /\ searchInstance = Null
  /\ reqs = <<>>

Waiting == [pc |-> "idle", kind |-> "none", body |-> Empty, called |-> FALSE,
            index |-> Null, response |-> Null, start |-> 0]

\* manuscriptIndexCache && indexLastFetched && Date.now() - indexLastFetched < INDEX_CACHE_TTL
cacheFresh ==
  /\ manuscriptIndexCache # Null
  /\ indexLastFetched # Null
  /\ now - indexLastFetched.v < INDEX_CACHE_TTL

\* fetchManuscriptIndex up to its first await, called for request r: the cached
\* index is returned, or the storage is asked whether the file exists
called(r, kind, body) ==
  IF cacheFresh
  THEN [pc |-> "fetched", kind |-> kind, body |-> body, called |-> TRUE,
        index |-> manuscriptIndexCache, response |-> Null, start |-> now]
  ELSE [pc |-> "exists", kind |-> kind, body |-> body, called |-> TRUE,
        index |-> Null, response |-> Null, start |-> now]

\* faulty variant of refuses: the index that was fetched is not looked at
refusesWithoutIndex(idx, instance) == instance = Null

\* !index || !searchInstance
refuses(idx, instance) == idx = Null \/ instance = Null

\* res.json of GET /search/index
indexResponse(idx) ==
  [status |-> 200,
   metadata |-> idx.metadata,
   facets |-> [f \in ArrayFacets \cup StringFacets |->
                 IF Has(idx.facets, f) THEN DOMAIN idx.facets[f] ELSE {}]]

Unavailable == [status |-> 500, error |-> "Search index not available or failed to load"]

FailedToLoad == [status |-> 500, error |-> "Failed to load search index"]

\* the requests arrive one after the other
mayArrive(r) ==
  /\ call.kind = "serve"
  /\ r \in DOMAIN reqs /\ r >= 1
  /\ reqs[r].pc = "idle"
  /\ r > 1 => reqs[r - 1].pc # "idle"

\* faulty variant of PostArrives: fetchManuscriptIndex is called for every
\* request
PostArrivesFetching(r, body) ==
  /\ mayArrive(r)
  /\ reqs' = [reqs EXCEPT ![r] = called(r, "post", body)]
  /\ UNCHANGED <<index, call, ret, bucket, now, manuscriptIndexCache,
                 indexLastFetched, searchInstance>>

\* router.post('/search') up to its first await: with a search instance the
\* request is answered at once, without one fetchManuscriptIndex is called
PostArrives(r, body) ==
  /\ mayArrive(r)
  /\ reqs' = [reqs EXCEPT ![r] =
       IF searchInstance # Null
       THEN [pc |-> "done", kind |-> "post", body |-> body, called |-> FALSE,
             index |-> Null, response |-> searchResponse(searchInstance.index, body),
             start |-> now]
       ELSE called(r, "post", body)]
  /\ UNCHANGED <<index, call, ret, bucket, now, manuscriptIndexCache,
                 indexLastFetched, searchInstance>>

\* router.get('/search/index') up to its first await
GetArrives(r) ==
  /\ mayArrive(r)
  /\ reqs' = [reqs EXCEPT ![r] = called(r, "get", Empty)]
  /\ UNCHANGED <<index, call, ret, bucket, now, manuscriptIndexCache,
                 indexLastFetched, searchInstance>>

\* where request r goes on when fetchManuscriptIndex returns: the call at the
\* start of the server is not awaited and nothing follows it
returned(r) == IF reqs[r].kind = "boot" THEN "done" ELSE "fetched"

\* faulty variant of failed: the search instance is left as it is
failedKeepsInstance(r) ==
  /\ manuscriptIndexCache' = Null
  /\ reqs' = [reqs EXCEPT ![r].pc = returned(r), ![r].index = Null]
  /\ UNCHANGED <<indexLastFetched, searchInstance>>

\* faulty variant of failed: the index loaded before is kept as a fallback
failedKeepsIndex(r) ==
  /\ reqs' = [reqs EXCEPT ![r].pc = returned(r), ![r].index = Null]
  /\ UNCHANGED <<manuscriptIndexCache, indexLastFetched, searchInstance>>

\* fetchManuscriptIndex has failed: the cache is cleared and null is returned
failed(r) ==
  /\ manuscriptIndexCache' = Null
  /\ searchInstance' = Null
  /\ reqs' = [reqs EXCEPT ![r].pc = returned(r), ![r].index = Null]
  /\ UNCHANGED indexLastFetched

\* fetchManuscriptIndex after await file.exists()
FileExists(r) ==
  /\ call.kind = "serve"
  /\ r \in DOMAIN reqs /\ reqs[r].pc = "exists"
  /\ IF bucket = Missing
     THEN failed(r)
     ELSE /\ reqs' = [reqs EXCEPT ![r].pc = "download"]
          /\ UNCHANGED <<manuscriptIndexCache, indexLastFetched, searchInstance>>
  /\ UNCHANGED <<index, call, ret, bucket, now>>

\* fetchManuscriptIndex after await file.download(): the content is parsed,
\* cached and given to a new search instance; a download or a parse that
\* fails is caught
Downloaded(r) ==
  /\ call.kind = "serve"
  /\ r \in DOMAIN reqs /\ reqs[r].pc = "download"
  /\ IF bucket \in {Missing, Corrupt}
     THEN failed(r)
     ELSE LET indexData == Version(bucket)
          IN /\ manuscriptIndexCache' = indexData
             /\ indexLastFetched' = Num(now)
             /\ searchInstance' = ManuscriptSearch(indexData)
             /\ reqs' = [reqs EXCEPT ![r].pc = returned(r), ![r].index = indexData]
  /\ UNCHANGED <<index, call, ret, bucket, now>>

\* the caller of fetchManuscriptIndex goes on with what it returned
Resumed(r) ==
  /\ call.kind = "serve"
  /\ r \in DOMAIN reqs /\ reqs[r].pc = "fetched"
  /\ reqs' = [reqs EXCEPT ![r].pc = "done", ![r].response =
       CASE reqs[r].kind = "post" ->
              IF refuses(reqs[r].index, searchInstance) THEN Unavailable
              ELSE searchResponse(searchInstance.index, reqs[r].body)
         [] reqs[r].kind = "get" ->
              IF reqs[r].index = Null THEN FailedToLoad
              ELSE indexResponse(reqs[r].index)]
  /\ UNCHANGED <<index, call, ret, bucket, now, manuscriptIndexCache,
                 indexLastFetched, searchInstance>>

\* the index build job, or anyone else, changes the stored file
BucketChanges(b) ==
  /\ call.kind = "serve"
  /\ b # bucket
  /\ bucket' = b
  /\ UNCHANGED <<index, call, ret, now, manuscriptIndexCache, indexLastFetched,
                 searchInstance, reqs>>

\* time passes: the clock advances by the time to live of the cached index
Tick ==
  /\ call.kind = "serve"
  /\ now < INDEX_CACHE_TTL + MaxTicks * INDEX_CACHE_TTL
  /\ now' = now + INDEX_CACHE_TTL
  /\ UNCHANGED <<index, call, ret, bucket, manuscriptIndexCache, indexLastFetched,
                 searchInstance, reqs>>

\* the server starts: nothing is cached and the initial fetchManuscriptIndex
\* (request 0) waits for the storage
InitServer ==
  /\ index = [documents |-> <<>>, facets |-> Empty]
  /\ call = [kind |-> "serve"]
  /\ ret = NotReturned
  /\ bucket \in BucketStates
  /\ now = INDEX_CACHE_TTL
  /\ manuscriptIndexCache = Null
  /\ indexLastFetched = Null
  /\ searchInstance = Null
  /\ reqs = [r \in 0..MaxRequests |->
               IF r = 0
               THEN [pc |-> "exists", kind |-> "boot", body |-> Empty, called |-> TRUE,
                     index |-> Null, response |-> Null, start |-> INDEX_CACHE_TTL]
               ELSE Waiting]

NextServer ==
  \/ \E r \in 1..MaxRequests, body \in ServerBodies : PostArrives(r, body)
  \/ \E r \in 1..MaxRequests : GetArrives(r)
  \/ \E r \in 0..MaxRequests : FileExists(r) \/ Downloaded(r) \/ Resumed(r)
  \/ \E b \in BucketStates : BucketChanges(b)
  \/ Tick

\* the strings of at most n characters of the alphabet
Strings(alphabet, n) == UNION {[1..k -> alphabet] : k \in 0..n}

\* the match types, 'regex' being none that matchString knows
MatchTypes == {"exact", "startsWith", "contains", "fuzzy", "regex"}

\* TextSearch.execute on one string value: the query is lowercased and
\* matchString decides, here for each of the match types
MatchStringCall ==
  /\ call.kind = "match" /\ ~ret.done
  /\ ret' = [done |-> TRUE, threw |-> FALSE,
             matches |-> [m \in MatchTypes |->
                            matchCharacters(call.value, toLowerCase(call.query), m)]]
  /\ UNCHANGED <<index, call, server>>

InitMatch ==
  /\ index = [documents |-> <<>>, facets |-> Empty]
  /\ call \in {[kind |-> "match", value |-> v, query |-> q] :
                 v \in Strings({"a", "B", " "}, MaxText),
                 q \in Strings({"a", "B"}, MaxQuery)}
  /\ ret = NotReturned
  /\ ServerOff

NextMatch == MatchStringCall

\* the operations of the queries searched one after the other
FrameOperands ==
  {FacetOp("languages", <<"la">>, "none"), TextOp(<<"title">>, <<"o">>, "contains")}

\* the queries searched one after the other on one index
FrameQueries ==
  UNION {{q, q @@ ("operator" :> "OR"), q @@ ("operator" :> "NOT")} :
           q \in {[operations |-> ops] : ops \in [1..2 -> FrameOperands]}}
  \cup {[operations |-> <<op>>] : op \in FrameOperands}
  \cup {Empty}

\* one more ManuscriptSearch.search(query) on the same search instance
SearchAgain(q) ==
  /\ call.kind = "searches"
  /\ call' = [kind |-> "searches", query |-> q]
  /\ ret' = IF searchThrows(index, q) THEN Thrown
             ELSE [done |-> TRUE, threw |-> FALSE,
                   resultIds |-> searchIds(index, q),
                   result |-> search(index, q)]
  /\ index' = indexAfterSearch(index, q)
  /\ UNCHANGED server

InitFrame ==
  /\ index \in Indexes
  /\ call = [kind |-> "searches", query |-> Empty]
  /\ ret = NotReturned
  /\ ServerOff

NextFrame == \E q \in FrameQueries : SearchAgain(q)

InitOps ==
  /\ index \in Indexes
  /\ call \in {[kind |-> "execute", op |-> op] : op \in Operations}
  /\ ret = NotReturned
  /\ ServerOff

InitSearch ==
  /\ index \in Indexes
  /\ call \in {[kind |-> "search", query |-> q] : q \in Queries}
  /\ ret = NotReturned
  /\ ServerOff

InitApi ==
  /\ index \in Indexes
  /\ call \in {[kind |-> "post", body |-> b] : b \in Bodies}
  /\ ret = NotReturned
  /\ ServerOff

NextOps == TextSearchCall \/ FacetSearchCall \/ DateRangeSearchCall \/ BooleanSearchCall

NextSearch == SearchCall

NextApi == PostSearch

\* the facet types of the search page whose values are toggled
PageFacetTypes == {"languages", "repository"}

\* the facet values the page offers, availableFacets[facetType]
AvailableValues == {<<"la", "fr", "de", "en">>[i] : i \in 1..MaxValues}

\* list.filter(v => v !== value)
filterOut(list, value) == SelectSeq(list, LAMBDA v : v # value)

\* faulty variant of toggleFacet: a value that goes to the exclude list stays
\* in the include list
toggleFacetKeepingInclude(selectedFacets, facetType, value) ==
  LET currentGroup == IF facetType \in DOMAIN selectedFacets
                      THEN selectedFacets[facetType]
                      ELSE [include |-> <<>>, exclude |-> <<>>]
      included == value \in Range(currentGroup.include)
      excluded == value \in Range(currentGroup.exclude)
      newGroup ==
        IF ~included /\ ~excluded
        THEN [include |-> Append(currentGroup.include, value),
              exclude |-> currentGroup.exclude]
        ELSE IF included
        THEN [include |-> currentGroup.include,
              exclude |-> Append(currentGroup.exclude, value)]
        ELSE [include |-> currentGroup.include,
              exclude |-> filterOut(currentGroup.exclude, value)]
  IN  [t \in DOMAIN selectedFacets \cup {facetType} |->
         IF t = facetType THEN newGroup ELSE selectedFacets[t]]

\* toggleFacet(facetType, value): the value of selectedFacets it assigns
toggleFacet(selectedFacets, facetType, value) ==
  LET currentGroup == IF facetType \in DOMAIN selectedFacets
                      THEN selectedFacets[facetType]
                      ELSE [include |-> <<>>, exclude |-> <<>>]
      included == value \in Range(currentGroup.include)
      excluded == value \in Range(currentGroup.exclude)
      newGroup ==
        IF ~included /\ ~excluded
        THEN [include |-> Append(currentGroup.include, value),
              exclude |-> currentGroup.exclude]
        ELSE IF included
        THEN [include |-> filterOut(currentGroup.include, value),
              exclude |-> Append(currentGroup.exclude, value)]
        ELSE [include |-> currentGroup.include,
              exclude |-> filterOut(currentGroup.exclude, value)]
  IN  [t \in DOMAIN selectedFacets \cup {facetType} |->
         IF t = facetType THEN newGroup ELSE selectedFacets[t]]

\* the selectedFacets the page starts with and clearFilters assigns
NoFacetsSelected == [t \in PageFacetTypes |-> [include |-> <<>>, exclude |-> <<>>]]

\* searchManuscripts(): the request is made of the state of the page as it is
\* when the function is called, and the response sets totalPages
searchManuscripts(op, n) ==
  /\ ret' = [done |-> TRUE, threw |-> FALSE, op |-> op, was |-> call.currentPage,
             page |-> call'.currentPage, facets |-> call'.selectedFacets]
  /\ call'.totalPages = n

\* the state of the page after a handler: its variables and totalPages
pageAfter(selectedFacets, currentPage, n) ==
  [kind |-> "page", selectedFacets |-> selectedFacets, currentPage |-> currentPage,
   totalPages |-> n]

\* a click on a facet value
ToggleFacet(facetType, value, n) ==
  /\ call.kind = "page"
  /\ call' = pageAfter(toggleFacet(call.selectedFacets, facetType, value), 1, n)
  /\ searchManuscripts("toggleFacet", n)
  /\ UNCHANGED <<index, server>>

\* a click on Clear Filters
ClearFilters(n) ==
  /\ call.kind = "page"
  /\ call' = pageAfter(NoFacetsSelected, 1, n)
  /\ searchManuscripts("clearFilters", n)
  /\ UNCHANGED <<index, server>>

\* a click on a pagination button
ChangePage(newPage, n) ==
  /\ call.kind = "page"
  /\ newPage >= 1
  /\ newPage <= (IF call.totalPages # 0 THEN call.totalPages ELSE 1)
  /\ newPage # call.currentPage
  /\ call' = pageAfter(call.selectedFacets, newPage, n)
  /\ searchManuscripts("changePage", n)
  /\ UNCHANGED <<index, server>>

InitPage ==
  /\ index = [documents |-> <<>>, facets |-> Empty]
  /\ call = pageAfter(NoFacetsSelected, 1, 0)
  /\ ret = NotReturned
  /\ ServerOff

NextPage ==
  \/ \E t \in PageFacetTypes, v \in AvailableValues, n \in 0..MaxPages :
       ToggleFacet(t, v, n)
  \/ \E n \in 0..MaxPages : ClearFilters(n)
  \/ \E newPage \in 1..MaxPages, n \in 0..MaxPages : ChangePage(newPage, n)

Init ==
  InitOps \/ InitSearch \/ InitApi \/ InitServer \/ InitFrame \/ InitMatch \/ InitPage

Next ==
  NextOps \/ NextSearch \/ NextApi \/ NextServer \/ NextFrame \/ NextMatch \/ NextPage

\* the search operations, each executed on its own
SpecOps == InitOps /\ [][NextOps]_vars

\* the query engine
SpecSearch == InitSearch /\ [][NextSearch]_vars

\* the route
SpecApi == InitApi /\ [][NextApi]_vars

\* the matching of one string value against one query
SpecMatch == InitMatch /\ [][NextMatch]_vars

\* the search page
SpecPage == InitPage /\ [][NextPage]_vars

\* a search instance that answers one query after the other
SpecFrame == InitFrame /\ [][NextFrame]_vars

\* the server with its cache, its requests and the stored file
SpecServer == InitServer /\ [][NextServer]_vars

Spec == Init /\ [][Next]_vars

(***************************************************************************)
(* Properties.                                                             *)
(***************************************************************************)
searchDone == ret.done /\ call.kind = "search" /\ ~ret.threw

postDone == ret.done /\ call.kind = "post" /\ ret.response.status = 200

facetDone(m) ==
  /\ ret.done /\ call.kind = "execute" /\ call.op.kind = "facet" /\ ~ret.threw
  /\ Has(call.op.options, "matchType") /\ call.op.options.matchType = m

booleanDone ==
  ret.done /\ call.kind = "execute" /\ call.op.kind = "boolean" /\ ~ret.threw

universe == Range(docIds(index.documents))

UniqueIds(idx) ==
  \A i, j \in 1..Len(idx.documents) :
    i # j => docId(idx.documents[i]) # docId(idx.documents[j])

\* C1: a search with zero operations, on an index with unique document ids,
\* returns every document: total is the number of documents and the items are
\* the index's documents.
C1_ZeroOperationsReturnAll ==
  (searchDone /\ NoOperations(call.query) /\ UniqueIds(index)) =>
    /\ ret.result.total = Len(index.documents)
    /\ ret.result.items = index.documents

C1_Witness ==
  /\ searchDone /\ NoOperations(call.query) /\ UniqueIds(index)
  /\ ret.result.total >= 2

\* the result of the same FacetSearch with matchType 'any'
anyOfCall == Range(FacetSearchExecute([call.op.options EXCEPT !.matchType = "any"], index))

placeOf(item) == CHOOSE k \in 1..Len(index.documents) : index.documents[k] = item

\* C3: the items of a search are in the relative order of index.documents,
\* whatever the operations and the operator.
C3_ItemsInDocumentOrder ==
  searchDone =>
    \A i, j \in 1..Len(ret.result.items) :
      i < j => placeOf(ret.result.items[i]) < placeOf(ret.result.items[j])

\* the request body with its page set to p
setPage(b, p) ==
  [f \in DOMAIN b \cup {"page"} |-> IF f = "page" THEN Num(p) ELSE b[f]]

\* the items of pages 1..n of the request, one after the other
pagesUpTo(n) ==
  Concat([p \in 1..n |-> searchResponse(index, setPage(call.body, p)).items])

\* C4: for a limit >= 1, the items of pages 1..totalPages, concatenated, are the
\* full matched list in order, without repetition or omission; totalPages is
\* ceil(total / limit) and every page reports the same total.
C4_PagesConcatenate ==
  (postDone /\ ret.response.limit >= 1) =>
    /\ pagesUpTo(ret.response.totalPages) = ret.searchResults.items
    /\ ret.response.totalPages * ret.response.limit >= ret.response.total
    /\ (ret.response.totalPages - 1) * ret.response.limit < ret.response.total
    /\ \A p \in 1..ret.response.totalPages :
         searchResponse(index, setPage(call.body, p)).total = ret.searchResults.total

C4_Witness ==
  /\ postDone /\ ret.response.limit >= 1
  /\ ret.response.totalPages >= 2
  /\ ret.response.page = 2
  /\ ret.response.items # <<>>

\* C5: for a page number outside 1..totalPages, below 1 as well as above
\* totalPages, the response has no items and its total is the full match count.
C5_OutOfRangePageIsEmpty ==
  (/\ postDone
   /\ \/ ret.response.page < 1
      \/ ret.response.page > ret.response.totalPages) =>
    /\ ret.response.items = <<>>
    /\ ret.response.total = ret.searchResults.total

AllFacetCounts == ArrayFacets \cup StringFacets

\* the number of the items that hold value v in field f
holders(items, f, v) == Cardinality({k \in 1..Len(items) : Holds(items[k], f, v)})

\* facet counts derived anew from a list of items: per facet type, each value
\* some item holds, with the number of items holding it
rederive(items) ==
  [f \in AllFacetCounts |->
     [v \in {w \in FacetValues : holders(items, f, w) > 0} |-> holders(items, f, v)]]

\* C6 as stated: re-deriving the counts from the items reproduces facetCounts,
\* for the engine's result and for the response, whose items are one page.
C6_CountsRederivedFromItems ==
  postDone =>
    /\ rederive(ret.searchResults.items) = ret.searchResults.facetCounts
    /\ rederive(ret.response.items) = ret.response.facetCounts

countOf(counts, f, v) == IF Has(counts[f], v) THEN counts[f][v] ELSE 0

\* the request body with its page and limit set
setPageLimit(b, p, l) ==
  [f \in DOMAIN b \cup {"page", "limit"} |->
     IF f = "page" THEN p ELSE IF f = "limit" THEN l ELSE b[f]]

\* C7: facetCounts of the response counts, per facet type and value, the
\* matched documents that hold the value, each document once; it is the same
\* for every page and limit, and it is not read from index.facets.
C7_CountsOverMatchedSet ==
  postDone =>
    /\ \A f \in AllFacetCounts, v \in FacetValues :
         countOf(ret.response.facetCounts, f, v) = holders(ret.searchResults.items, f, v)
    /\ \A f \in AllFacetCounts : DOMAIN ret.response.facetCounts[f] \subseteq FacetValues
    /\ \A p \in PageInputs, l \in LimitInputs :
         searchResponse(index, setPageLimit(call.body, p, l)).facetCounts
           = ret.response.facetCounts

\* C8: a BooleanSearch of two operations with results A and B returns the
\* intersection for AND, the union for OR and A without B for NOT; hence
\* |AND| <= min(|A|, |B|), |OR| >= max(|A|, |B|), and NOT shares no id with B.
C8_BooleanSetAlgebra ==
  (booleanDone /\ Has(call.op, "operator")) =>
    LET A == Range(execute(call.op.operation1, index))
        B == Range(execute(call.op.operation2, index))
        R == Range(ret.ids)
    IN /\ Len(ret.ids) = Cardinality(R)
       /\ call.op.operator = "AND" =>
            /\ R = A \cap B
            /\ Cardinality(R) <= Min(Cardinality(A), Cardinality(B))
       /\ call.op.operator = "OR" =>
            /\ R = A \cup B
            /\ Cardinality(R) >= Max(Cardinality(A), Cardinality(B))
       /\ call.op.operator = "NOT" =>
            /\ R = A \ B
            /\ R \cap B = {}

C8_Witness ==
  /\ booleanDone /\ Has(call.op, "operator") /\ call.op.operator = "NOT"
  /\ ret.ids # <<>>
  /\ Range(execute(call.op.operation1, index))
       \cap Range(execute(call.op.operation2, index)) # {}
  /\ Range(execute(call.op.operation2, index)) \ Range(ret.ids) # {}

RECURSIVE leftNested(_, _, _)
\* ((op1 o op2) o op3) ... o opN as a tree of BooleanSearch
leftNested(acc, rest, operator) ==
  IF rest = <<>> THEN acc
  ELSE leftNested(BooleanOp(acc, Head(rest), operator), Tail(rest), operator)

severalOperations == Has(call.query, "operations") /\ Len(call.query.operations) > 1

\* C9: for N > 1 operations and an operator of AND, OR, NOT, the ids the search
\* matches are those of the left-nested BooleanSearch tree built with that
\* operator; with the operator omitted, with AND.
C9_FoldEqualsNestedBoolean ==
  (/\ searchDone /\ severalOperations
   /\ Has(call.query, "operator") => call.query.operator \in {"AND", "OR", "NOT"}) =>
    LET ops == call.query.operations
        operator == IF Has(call.query, "operator") THEN call.query.operator ELSE "AND"
    IN Range(ret.resultIds) = Range(execute(leftNested(ops[1], Tail(ops), operator), index))

C9_Witness ==
  /\ searchDone /\ severalOperations
  /\ Len(call.query.operations) = 3
  /\ Has(call.query, "operator") /\ call.query.operator = "OR"
  /\ Range(ret.resultIds) # Range(execute(call.query.operations[1], index))
  /\ Range(ret.resultIds) # Range(execute(call.query.operations[3], index))

KnownOperators == {"AND", "OR", "NOT"}

\* a single BooleanSearch whose operator is not one of AND, OR, NOT
oddBoolean ==
  /\ Has(call.query, "operations") /\ Len(call.query.operations) = 1
  /\ call.query.operations[1].kind = "boolean"
  /\ Has(call.query.operations[1], "operator") =>
       call.query.operations[1].operator \notin KnownOperators

\* C10 as stated: with an operator that is any value other than AND, OR, NOT,
\* a BooleanSearch returns the result of its first child and the fold over
\* N > 1 operations returns the result of the first operation.
C10_OtherOperatorKeepsLeft ==
  searchDone =>
    /\ (/\ severalOperations /\ Has(call.query, "operator")
        /\ call.query.operator \notin KnownOperators) =>
         ret.resultIds = execute(call.query.operations[1], index)
    /\ oddBoolean =>
         ret.resultIds = execute(call.query.operations[1].operation1, index)

\* C10 amended: a BooleanSearch whose operator is none of AND, OR, NOT returns
\* the result of its first child; the fold over N > 1 operations returns the
\* result of the first operation when the operator is a non-empty value other
\* than AND, OR, NOT, and behaves as AND when the operator is the empty string.
C10_TruthyOtherOperatorKeepsLeft ==
  searchDone =>
    /\ (/\ severalOperations /\ Has(call.query, "operator")
        /\ call.query.operator \notin KnownOperators \cup {""}) =>
         ret.resultIds = execute(call.query.operations[1], index)
    /\ (/\ severalOperations /\ Has(call.query, "operator")
        /\ call.query.operator = "") =>
         Range(ret.resultIds) =
           {id \in Range(execute(call.query.operations[1], index)) :
              \A k \in 2..Len(call.query.operations) :
                id \in Range(execute(call.query.operations[k], index))}
    /\ oddBoolean =>
         ret.resultIds = execute(call.query.operations[1].operation1, index)

C10_Witness ==
  /\ searchDone /\ severalOperations
  /\ Has(call.query, "operator") /\ call.query.operator = "XOR"
  /\ ret.resultIds # <<>>
  /\ Range(execute(call.query.operations[2], index)) \cap Range(ret.resultIds) = {}
  /\ Range(execute(call.query.operations[2], index)) # {}

\* a FacetSearch was executed with the matchType m in effect, whatever came of it
facetCalled(m) ==
  /\ ret.done /\ call.kind = "execute" /\ call.op.kind = "facet"
  /\ IF Has(call.op.options, "matchType") THEN call.op.options.matchType = m
     ELSE m = "any"

\* the ids index.facets holds under value v of the facet type of the call
storedIds(v) ==
  LET type == call.op.options.facetType
  IN IF Has(index.facets, type) /\ Has(index.facets[type], v)
     THEN Range(index.facets[type][v]) ELSE {}

requested == Range(call.op.options.values)

\* C11: a FacetSearch with matchType 'any' returns the union of the id sets
\* stored under its values, a value that is not a key of the facet adding
\* nothing; for one value, exactly the ids stored under it.
C11_AnyIsUnionOfStoredIds ==
  facetCalled("any") =>
    /\ ~ret.threw
    /\ Len(ret.ids) = Cardinality(Range(ret.ids))
    /\ Range(ret.ids) = UNION {storedIds(v) : v \in requested}

\* C12: a FacetSearch with matchType 'all' returns the ids stored under every
\* requested value, none when a requested value is not a key and none for an
\* empty value list; for a non-empty list they are among the ids of 'any'.
C12_AllIsIntersectionOfStoredIds ==
  facetCalled("all") =>
    /\ ~ret.threw
    /\ Range(ret.ids) =
         IF requested = {} THEN {}
         ELSE {id \in UNION {storedIds(v) : v \in requested} :
                 \A v \in requested : id \in storedIds(v)}
    /\ requested # {} =>
         Range(ret.ids) \subseteq
           Range(FacetSearchExecute([call.op.options EXCEPT !.matchType = "any"], index))

\* C13: a FacetSearch whose facetType is not a key of index.facets returns the
\* empty set, for 'any', 'all' and 'none' and every value list, and raises no
\* error.
C13_UnknownFacetTypeIsEmpty ==
  (/\ facetCalled("any") \/ facetCalled("all") \/ facetCalled("none")
   /\ ~Has(index.facets, call.op.options.facetType)) =>
    /\ ~ret.threw
    /\ ret.ids = <<>>

\* a DateRangeSearch of the given type returned
dateDone(type) ==
  /\ ret.done /\ call.kind = "execute" /\ call.op.kind = "date" /\ ~ret.threw
  /\ call.op.options.type = type

betweenYears ==
  /\ dateDone("between") /\ Has(call.op.options, "endYear")
  /\ call.op.options.year <= call.op.options.endYear

isNumber(doc, f) == Has(doc, f) /\ doc[f].t = "number"

\* the document's range and the queried range have a year in common
overlaps(doc) ==
  /\ doc["start_year"].v <= call.op.options.endYear
  /\ doc["end_year"].v >= call.op.options.year

\* both bounds of the document are numbers other than 0
bothYears(doc) ==
  /\ isNumber(doc, "start_year") /\ doc["start_year"].v # 0
  /\ isNumber(doc, "end_year") /\ doc["end_year"].v # 0

\* C14 as stated: 'between' with year <= endYear matches a document that has
\* both bounds, start_year <= end_year, exactly when its range overlaps
\* [year, endYear].
C14_BetweenIsOverlap ==
  betweenYears =>
    \A k \in 1..Len(index.documents) :
      LET doc == index.documents[k]
      IN (/\ isNumber(doc, "start_year") /\ isNumber(doc, "end_year")
          /\ doc["start_year"].v <= doc["end_year"].v) =>
           (docId(doc) \in Range(ret.ids) <=> overlaps(doc))

\* C14 amended: 'between' with year <= endYear matches a document that has
\* both bounds present and not 0, start_year <= end_year, exactly when its
\* range overlaps [year, endYear].
C14_BetweenIsOverlapOfNonZeroBounds ==
  betweenYears =>
    \A k \in 1..Len(index.documents) :
      LET doc == index.documents[k]
      IN (bothYears(doc) /\ doc["start_year"].v <= doc["end_year"].v) =>
           (docId(doc) \in Range(ret.ids) <=> overlaps(doc))

\* a matched document lies inside the queried range, another one is left out
C14_Witness ==
  /\ betweenYears
  /\ \E k \in 1..Len(index.documents) :
       LET doc == index.documents[k]
       IN /\ bothYears(doc)
          /\ doc["start_year"].v > call.op.options.year
          /\ doc["end_year"].v < call.op.options.endYear
          /\ docId(doc) \in Range(ret.ids)
  /\ Len(ret.ids) < Len(index.documents)

\* C15: 'before' returns the documents with both bounds present and not 0 and
\* end_year <= year, 'after' those with both bounds present and not 0 and
\* start_year >= year; a document with a bound missing or 0 is in no result
\* of a DateRangeSearch.
C15_BeforeAfterAndSkippedBounds ==
  (ret.done /\ call.kind = "execute" /\ call.op.kind = "date") =>
    LET docs == Range(index.documents)
    IN /\ ~ret.threw
       /\ call.op.options.type = "before" =>
            Range(ret.ids) =
              {docId(d) : d \in {e \in docs : bothYears(e)
                                   /\ e["end_year"].v <= call.op.options.year}}
       /\ call.op.options.type = "after" =>
            Range(ret.ids) =
              {docId(d) : d \in {e \in docs : bothYears(e)
                                   /\ e["start_year"].v >= call.op.options.year}}
       /\ \A d \in docs : ~bothYears(d) => docId(d) \notin Range(ret.ids)

\* 'before' leaves out an entry whose end_year is early enough and whose
\* start_year is 0
C15_Witness ==
  /\ dateDone("before")
  /\ ret.ids # <<>>
  /\ \E k \in 1..Len(index.documents) :
       LET doc == index.documents[k]
       IN /\ isNumber(doc, "start_year") /\ doc["start_year"].v = 0
          /\ isNumber(doc, "end_year") /\ doc["end_year"].v <= call.op.options.year
          /\ docId(doc) \notin Range(ret.ids)

\* C16: a DateRangeSearch of type 'between' without endYear matches no document.
C16_BetweenWithoutEndYearIsEmpty ==
  (dateDone("between") /\ ~Has(call.op.options, "endYear")) => ret.ids = <<>>

\* the index holds an entry whose range has the queried year in it
C16_Witness ==
  /\ dateDone("between") /\ ~Has(call.op.options, "endYear")
  /\ \E k \in 1..Len(index.documents) :
       LET doc == index.documents[k]
       IN /\ bothYears(doc)
          /\ doc["start_year"].v <= call.op.options.year
          /\ doc["end_year"].v >= call.op.options.year

\* a TextSearch returned
textDone == ret.done /\ call.kind = "execute" /\ call.op.kind = "text" /\ ~ret.threw

textMatchType ==
  IF Has(call.op.options, "matchType") THEN call.op.options.matchType ELSE "contains"

\* the lowercased characters cs equal, contain or begin with the query q
matchesAs(cs, q, m) ==
  CASE m = "exact" -> cs = q
    [] m = "contains" -> includes(cs, q)
    [] m = "startsWith" -> startsWith(cs, q)

\* the field of the document is a string that matches or an array with an
\* element that matches
fieldMatches(doc, field, q, m) ==
  /\ Has(doc, field)
  /\ \/ doc[field].t = "string" /\ matchesAs(toLowerCase(Spell(doc[field].v)), q, m)
     \/ /\ doc[field].t = "array"
        /\ \E i \in 1..Len(doc[field].v) :
             matchesAs(toLowerCase(Spell(doc[field].v[i])), q, m)

\* C17: a TextSearch with matchType exact, contains or startsWith returns the
\* ids of the documents of which a listed field matches the lowercased query;
\* a field that is absent, null or neither string nor array matches nothing
\* and raises no error.
C17_TextSearchMatchesAnyField ==
  (/\ ret.done /\ call.kind = "execute" /\ call.op.kind = "text"
   /\ textMatchType \in {"exact", "contains", "startsWith"}) =>
    /\ ~ret.threw
    /\ Range(ret.ids) =
         {docId(d) : d \in {e \in Range(index.documents) :
            \E f \in Range(call.op.options.fields) :
              fieldMatches(e, f, toLowerCase(call.op.options.query), textMatchType)}}

\* a listed field is absent from every entry, an entry has a null title, one
\* entry matches through a capital letter and another does not match
C17_Witness ==
  /\ textDone /\ textMatchType = "startsWith"
  /\ "nofield" \in Range(call.op.options.fields)
  /\ \E k \in 1..Len(index.documents) : index.documents[k]["title"].t = "null"
  /\ ret.ids # <<>>
  /\ Len(ret.ids) < Len(index.documents)

\* C18: the projection leaves out every id of the combined result set that is
\* no id of a document of the index, raises no error, and total is the number
\* of the projected documents.
C18_StaleIdsDropped ==
  (ret.done /\ call.kind = "search" /\ ~searchThrows(index, call.query)) =>
    /\ ~ret.threw
    /\ \A k \in 1..Len(ret.result.items) : ret.result.items[k] \in Range(index.documents)
    /\ docIds(ret.result.items) = SelectSeq(ret.resultIds, LAMBDA id : id \in universe)
    /\ ret.result.total = Len(ret.result.items)

C18_Witness ==
  /\ searchDone
  /\ "Z" \in Range(ret.resultIds)
  /\ ret.result.items # <<>>
  /\ ret.result.total < Len(ret.resultIds)

\* the indexes that were ever published to the bucket
Snapshots == {Version(v) : v \in 1..MaxVersions}

\* request r is a POST /search that was answered
posted(r) == r \in DOMAIN reqs /\ reqs[r].pc = "done" /\ reqs[r].kind = "post"

\* C19: whatever the interleaving of the runs of fetchManuscriptIndex with the
\* search requests, the search instance is bound to the whole of one published
\* index, the one that is cached (both are null together), and every search
\* that was answered is the search of one published index: its documents and
\* its facets are of the same version.
C19_SearchSeesOneSnapshot ==
  /\ (searchInstance = Null) <=> (manuscriptIndexCache = Null)
  /\ searchInstance # Null =>
       /\ searchInstance.index \in Snapshots
       /\ searchInstance.index = manuscriptIndexCache
  /\ \A r \in DOMAIN reqs :
       (posted(r) /\ reqs[r].response.status = 200) =>
         \E v \in 1..MaxVersions :
           reqs[r].response = searchResponse(Version(v), reqs[r].body)

\* a search was answered from the first index while a fetch was under way,
\* and that fetch has since replaced the index by the second
C19_Witness ==
  /\ \E r \in DOMAIN reqs :
       /\ posted(r)
       /\ reqs[r].response = searchResponse(Version(1), reqs[r].body)
       /\ reqs[r].response # searchResponse(Version(2), reqs[r].body)
  /\ searchInstance = ManuscriptSearch(Version(2))

\* fetchManuscriptIndex gave null to the handler of request r
withoutIndex(r) ==
  /\ r \in DOMAIN reqs
  /\ reqs[r].pc = "done"
  /\ reqs[r].kind \in {"post", "get"}
  /\ reqs[r].called
  /\ reqs[r].index = Null

\* C20: a POST /search and a GET /search/index for which no index could be
\* loaded (the file is missing, or the download or the parse failed) are
\* answered with status 500, POST /search never with a result; and a POST
\* /search is answered with a result only from a search instance that holds
\* a published index.
C20_NoIndexRefuses ==
  \A r \in DOMAIN reqs :
    /\ withoutIndex(r) =>
         /\ reqs[r].response.status = 500
         /\ reqs[r].response =
              IF reqs[r].kind = "post" THEN Unavailable ELSE FailedToLoad
    /\ (posted(r) /\ ~reqs[r].called) =>
         \E v \in 1..MaxVersions :
           reqs[r].response = searchResponse(Version(v), reqs[r].body)

\* a POST /search found no search instance, the load failed and the request
\* was refused; the stored file is still no JSON
C20_Witness ==
  /\ bucket = Corrupt
  /\ searchInstance = Null
  /\ \E r \in DOMAIN reqs :
       withoutIndex(r) /\ reqs[r].kind = "post" /\ reqs[r].response = Unavailable

\* the body is a JSON object: it is given, typeof says 'object' and it is no
\* array
jsonObject(body) == isObject(body) /\ ~Has(body, "length")

\* C21: a POST /search whose body is missing or is no object is answered with
\* status 400 and no search is run for it.
C21_NonObjectBodyRejected ==
  (ret.done /\ call.kind = "post" /\ ~jsonObject(call.body)) =>
    /\ ret.response.status = 400
    /\ ret.searchResults = Empty

\* C22: no search changes the index: across every search of a sequence
\* index.documents and the id lists of index.facets stay as they are, and a
\* query searched again right away returns the same total, items and
\* facetCounts.
C22_SearchLeavesIndexUnchanged ==
  [][/\ index' = index
     /\ (ret.done /\ ~ret.threw /\ call' = call) => ret' = ret]_vars

\* a search with operator OR has added ids to the Set that FacetSearch 'none'
\* returned as the first operation, on an index that lists ids under the value
C22_Witness ==
  /\ call.kind = "searches" /\ ret.done /\ ~ret.threw
  /\ Has(call.query, "operations") /\ Len(call.query.operations) = 2
  /\ operatorOrAnd(call.query) = "OR"
  /\ call.query.operations[1] = FacetOp("languages", <<"la">>, "none")
  /\ Has(index.facets, "languages") /\ Has(index.facets["languages"], "la")
  /\ ret.resultIds # execute(call.query.operations[1], index)
  /\ ret.result.total > 0

\* the same TextSearch with matchType 'contains'
asContains(options) == [fields |-> options.fields, query |-> options.query,
                        matchType |-> "contains"]

\* C23: a TextSearch with matchType 'fuzzy' whose query has at most two
\* characters returns the ids that matchType 'contains' returns for the same
\* fields and query.
C23_ShortFuzzyIsContains ==
  (textDone /\ textMatchType = "fuzzy" /\ Len(call.op.options.query) <= 2) =>
    Range(ret.ids) = Range(TextSearchExecute(asContains(call.op.options), index))

\* a string value was matched against a query
matchDone == ret.done /\ call.kind = "match"

\* the lowercased value and the lowercased query of the call
matchedText == toLowerCase(call.value)

matchedQuery == toLowerCase(call.query)

\* the whitespace-delimited words of the text: the longest stretches without
\* a space
wordsOf(text) ==
  {SubSeq(text, p[1], p[2]) :
     p \in {w \in (1..Len(text)) \X (1..Len(text)) :
              /\ w[1] <= w[2]
              /\ \A n \in w[1]..w[2] : text[n] # " "
              /\ (w[1] = 1 \/ text[w[1] - 1] = " ")
              /\ (w[2] = Len(text) \/ text[w[2] + 1] = " ")}}

\* the word with its i-th character deleted
without(word, i) == SubSeq(word, 1, i - 1) \o SubSeq(word, i + 1, Len(word))

\* (b) of the claim
deletionMatch(word, q) == \E i \in 1..Len(word) : without(word, i) = q

\* (c) of the claim
prefixMatch(word, q) ==
  LET n == Min(Len(q), Len(word)) - 1
  IN n >= 3 /\ SubSeq(word, 1, n) = SubSeq(q, 1, n)

\* C24: for a query of three or more characters the fuzzy match of a value
\* succeeds exactly when the lowercased value contains the lowercased query or
\* one of its whitespace-delimited words equals the query, equals it after the
\* deletion of one character, or shares with it a prefix of
\* min(len(query), len(word)) - 1 >= 3 characters; no word length is asked for.
C24_FuzzyMatchCases ==
  (matchDone /\ Len(call.query) >= 3) =>
    (ret.matches["fuzzy"] <=>
       \/ includes(matchedText, matchedQuery)
       \/ \E word \in wordsOf(matchedText) :
            \/ word = matchedQuery
            \/ deletionMatch(word, matchedQuery)
            \/ prefixMatch(word, matchedQuery))

\* a value that does not contain the query matches through a word with one
\* character too many
C24_Witness ==
  /\ matchDone /\ Len(call.query) >= 3
  /\ ret.matches["fuzzy"] /\ ~ret.matches["contains"]
  /\ \E word \in wordsOf(matchedText) :
       deletionMatch(word, matchedQuery) /\ ~prefixMatch(word, matchedQuery)
  /\ \E i \in 1..Len(call.value) : call.value[i] = " "

\* C25: for one value and one query, exact implies startsWith, startsWith
\* implies contains, contains implies fuzzy, and a match type that matchString
\* does not know decides as contains does; the id sets of TextSearch, which
\* hold the documents with a matching value, are nested likewise.
C25_MatchTypesNested ==
  matchDone =>
    /\ ret.matches["exact"] => ret.matches["startsWith"]
    /\ ret.matches["startsWith"] => ret.matches["contains"]
    /\ ret.matches["contains"] => ret.matches["fuzzy"]
    /\ ret.matches["regex"] <=> ret.matches["contains"]

\* a value written with a capital contains the query and does not begin with
\* it: contains, fuzzy and the unknown match type match, startsWith and exact
\* do not
C25_Witness ==
  /\ matchDone /\ Len(call.query) >= 2
  /\ call.value # matchedText
  /\ ret.matches["contains"] /\ ret.matches["fuzzy"] /\ ret.matches["regex"]
  /\ ~ret.matches["startsWith"] /\ ~ret.matches["exact"]

\* the facets of the index agree with the fields of the documents: under each
\* value of each type they list the ids of the documents that hold it
agrees(idx) ==
  \A f \in DOMAIN idx.facets :
    \A v \in FacetValues :
      (IF Has(idx.facets[f], v) THEN Range(idx.facets[f][v]) ELSE {}) =
        {docId(d) : d \in {e \in Range(idx.documents) : Holds(e, f, v)}}

\* the body names no top-level operator
defaultOperator(body) == ~Has(body, "operator") \/ body.operator = ""

\* the entries of searchQuery.facets that exclude values of a known facet type
excluding(body, idx) ==
  IF ~Has(body, "facets") THEN {}
  ELSE {entry \in Range(body.facets) :
          /\ Has(idx.facets, entry[1])
          /\ isObject(entry[2])
          /\ hasValues(entry[2], "exclude")}

\* C26: with the default operator AND and an index whose facets agree with its
\* documents, no document in the answer of POST /search holds a value listed
\* in exclude.values of a known facet type, whatever the other filters and
\* whatever matchType is sent with the exclude filter.
C26_ExcludedValuesNotReturned ==
  (postDone /\ isObject(call.body) /\ defaultOperator(call.body) /\ agrees(index)) =>
    \A entry \in excluding(call.body, index) :
      \A k \in 1..Len(ret.response.items) :
        \A v \in Range(entry[2].exclude.values) :
          ~Holds(ret.response.items[k], entry[1], v)

\* an exclude filter sent with matchType 'any' and a text filter: a document
\* that matches the text and holds an excluded value is left out, another
\* document is returned
C26_Witness ==
  /\ postDone /\ isObject(call.body) /\ defaultOperator(call.body) /\ agrees(index)
  /\ Has(call.body, "text")
  /\ \E entry \in excluding(call.body, index) :
       /\ Has(entry[2].exclude, "matchType") /\ entry[2].exclude.matchType = "any"
       /\ \E d \in Range(index.documents), v \in Range(entry[2].exclude.values) :
            /\ Holds(d, entry[1], v)
            /\ docId(d) \in Range(TextSearchExecute(
                   [fields |-> DefaultFields, query |-> call.body.text.query], index))
  /\ ret.response.items # <<>>

\* C27: between any two stretches of the handlers the search instance is there
\* exactly when the cached index is, and it is built from the cached index; a
\* step that changes one of cache, timestamp and instance either sets all three
\* (the timestamp to the present time) or clears cache and instance and leaves
\* the timestamp.
C27_InstanceBuiltFromCache ==
  /\ [](/\ (searchInstance # Null) <=> (manuscriptIndexCache # Null)
        /\ searchInstance # Null =>
             /\ searchInstance.index = manuscriptIndexCache
             /\ indexLastFetched # Null)
  /\ [][(\/ manuscriptIndexCache' # manuscriptIndexCache
          \/ searchInstance' # searchInstance
          \/ indexLastFetched' # indexLastFetched) =>
         \/ /\ manuscriptIndexCache' = Null
            /\ searchInstance' = Null
            /\ indexLastFetched' = indexLastFetched
         \/ /\ manuscriptIndexCache' # Null
            /\ searchInstance'.index = manuscriptIndexCache'
            /\ indexLastFetched' = Num(now)]_vars

\* a refresh has replaced the index after the time to live, and a further
\* fetch is between its awaits
C27_Witness ==
  /\ searchInstance # Null
  /\ indexLastFetched # Null /\ indexLastFetched.v > INDEX_CACHE_TTL
  /\ \E r \in DOMAIN reqs : reqs[r].pc \in {"exists", "download"}

\* the age of the cached index at the present time
expired == indexLastFetched # Null /\ now - indexLastFetched.v >= INDEX_CACHE_TTL

\* the fetch of request r ends without an index in this step
fails(r) ==
  /\ reqs[r].pc \in {"exists", "download"}
  /\ reqs'[r].pc \in {"fetched", "done"}
  /\ reqs'[r].index = Null

\* a POST /search arrives as request r in this step
postArrives(r) == reqs[r].pc = "idle" /\ reqs'[r].kind = "post"

\* C28: a fetch that fails leaves cache and search instance null, whatever was
\* loaded before, and returns null; a POST /search that arrives while there is
\* no search instance is not answered at once but asks the storage again, and
\* it is answered with a result only if its fetch returned an index, with
\* status 500 otherwise.
C28_FailedRefreshDiscardsIndex ==
  /\ [][\A r \in DOMAIN reqs :
          /\ fails(r) => (manuscriptIndexCache' = Null /\ searchInstance' = Null)
          /\ (postArrives(r) /\ searchInstance = Null) =>
               (reqs'[r].called /\ reqs'[r].pc = "exists")]_vars
  /\ [](\A r \in DOMAIN reqs :
          (posted(r) /\ reqs[r].called) =>
            IF reqs[r].index = Null THEN reqs[r].response = Unavailable
            ELSE reqs[r].response.status \in {200, 500})

\* an index was loaded, a fetch that a POST /search had called failed after
\* the time to live and discarded it, and that request was refused
C28_Witness ==
  /\ manuscriptIndexCache = Null /\ searchInstance = Null
  /\ indexLastFetched # Null /\ expired
  /\ \E r \in DOMAIN reqs :
       /\ posted(r) /\ reqs[r].called /\ reqs[r].index = Null
       /\ reqs[r].response = Unavailable

\* C29: a POST /search that arrives while there is a search instance is
\* answered from it without a call of fetchManuscriptIndex, also when the time
\* to live has elapsed; the search instance changes only in a step of a fetch
\* that was called at the start of the server, by GET /search/index or by a
\* POST /search that found no instance; and a fetch called while the cached
\* index is younger than the time to live returns it without asking the
\* storage.
C29_SearchNeverRefreshes ==
  [][/\ \A r \in DOMAIN reqs :
          /\ (postArrives(r) /\ searchInstance # Null) =>
               /\ ~reqs'[r].called /\ reqs'[r].pc = "done"
               /\ reqs'[r].response = searchResponse(searchInstance.index, reqs'[r].body)
          /\ (reqs[r].pc = "idle" /\ reqs'[r].called /\ cacheFresh) =>
               /\ reqs'[r].pc = "fetched"
               /\ reqs'[r].index = manuscriptIndexCache
          /\ (reqs[r].pc = "idle" /\ reqs'[r].called /\ ~cacheFresh) =>
               reqs'[r].pc = "exists"
     /\ searchInstance' # searchInstance =>
          \E r \in DOMAIN reqs :
            /\ reqs[r].pc \in {"exists", "download"}
            /\ reqs'[r].pc \in {"fetched", "done"}
            /\ reqs[r].called
            /\ reqs[r].kind \in {"boot", "get", "post"}]_vars

\* a POST /search that arrived after the time to live had elapsed was
\* answered from the search instance, the cached index being still the old one
C29_Witness ==
  /\ searchInstance # Null /\ indexLastFetched # Null
  /\ \E r \in DOMAIN reqs :
       /\ posted(r) /\ ~reqs[r].called /\ reqs[r].response.status = 200
       /\ reqs[r].start - indexLastFetched.v >= INDEX_CACHE_TTL

\* where a value stands in a facet type of selectedFacets
facetState(selectedFacets, facetType, value) ==
  LET included == value \in Range(selectedFacets[facetType].include)
      excluded == value \in Range(selectedFacets[facetType].exclude)
  IN  IF included /\ excluded THEN "both"
      ELSE IF included THEN "include"
      ELSE IF excluded THEN "exclude"
      ELSE "unselected"

\* the state that follows a state in the cycle of toggleFacet
nextState(state) ==
  CASE state = "unselected" -> "include"
    [] state = "include" -> "exclude"
    [] state = "exclude" -> "unselected"
    [] OTHER -> "none"

\* no element of the list occurs in it twice
noDuplicates(list) == \A i, j \in 1..Len(list) : list[i] = list[j] => i = j

\* C30: after any sequence of toggleFacet, clearFilters and changePage no
\* value is in the include and the exclude list of a facet
\* type, no list holds a value twice; a toggle of a value moves it from
\* unselected to include, from include to exclude and from exclude to
\* unselected, three toggles bring it back to where it was, and a toggle leaves
\* every other value of every facet type where it was; the search that a toggle
\* starts is sent with page 1, which is then the current page.
C30_ToggleFacetCycles ==
  LET selectedFacets == call.selectedFacets
      once(t, v) == toggleFacet(selectedFacets, t, v)
      thrice(t, v) == toggleFacet(toggleFacet(once(t, v), t, v), t, v)
  IN  /\ \A t \in DOMAIN selectedFacets :
           /\ Range(selectedFacets[t].include) \cap Range(selectedFacets[t].exclude) = {}
           /\ noDuplicates(selectedFacets[t].include)
           /\ noDuplicates(selectedFacets[t].exclude)
      /\ \A t \in PageFacetTypes, v \in AvailableValues :
           /\ facetState(once(t, v), t, v) = nextState(facetState(selectedFacets, t, v))
           /\ facetState(thrice(t, v), t, v) = facetState(selectedFacets, t, v)
           /\ \A t2 \in PageFacetTypes, v2 \in AvailableValues :
                (t2 # t \/ v2 # v) =>
                  facetState(once(t, v), t2, v2) = facetState(selectedFacets, t2, v2)
      /\ (ret.done /\ ret.op = "toggleFacet") =>
           /\ ret.page = 1 /\ call.currentPage = 1
           /\ ret.facets = selectedFacets

\* on the second page a value was toggled from include to exclude, while the
\* facet type has another value included
C30_Witness ==
  /\ ret.done /\ ret.op = "toggleFacet" /\ ret.was = 2
  /\ \E t \in PageFacetTypes :
       /\ call.selectedFacets[t].include # <<>>
       /\ call.selectedFacets[t].exclude # <<>>

====
